---- MODULE Spec2Model ----
(***************************************************************************)
(* Lifecycle of the Dialog controller (dialog.js): open(), close(), the    *)
(* native "close" notification handler, light dismiss, and the opened /    *)
(* closed promises.  Every async function is a process whose program       *)
(* counter names the await it is suspended on; one action is the code      *)
(* that runs between two awaits.                                           *)
(***************************************************************************)
EXTENDS Integers, Sequences, FiniteSets, TLC

\* ------------------------------------------------------------------ bounds
\* open() calls that get past the guards, and native close events, per run
MaxOpens == 2
MaxCloses == 2

\* ------------------------------------------------------------ program data
\* The hook registry handed to the constructor: kind id -> hooks it defines.
Config == [foo |-> {"opening", "opened", "closing", "closed"}, bar |-> {"closing"}]

\* Ids passed to open(): the registered ones and one that is not registered.
OpenIds == {"foo", "bar", "baz"}

\* Reasons passed to close(kind); "programmatic" is the default argument.
CloseReasons == {"programmatic", "custom"}

Undefined == 0
Pending == -1

Surfaces == 1..MaxOpens
Handlers == 1..MaxCloses

VARIABLES
  id,            \* this.#id
  isOpen,        \* this.isOpen
  dialog,        \* this.__dialog : a surface or Undefined
  openedS,       \* every promise ever assigned to this.opened; the last is the current one
  closedS,       \* every promise ever assigned to this.closed; the last is the current one
  attached,      \* surface -> is it connected to document.body
  attrs,         \* surface -> the markers (attributes) present on the node
  returnValue,   \* surface -> dialog.returnValue
  nOpen,         \* number of open() calls that passed the guards (= surfaces created)
  pc,            \* open() call -> the await it is suspended on
  oid,           \* open() call -> its id argument, while the call runs
  oerr,          \* open() call -> the error it rejected with
  did,           \* open() call -> the steps of lines 203-212 it has performed
  olog,          \* open() call -> the events it dispatched and hooks it called, in order
  nClose,        \* number of native close events queued so far
  hpc,           \* close handler run -> the await it is suspended on
  hid,           \* close handler run -> its local id, while it runs
  hd,            \* close handler run -> its local d, while it runs
  herr,          \* close handler run -> the error it rejected with
  hkind,         \* close handler run -> the result its close event was queued with
  hlog,          \* close handler run -> the events it dispatched and hooks it called
  openError      \* what the guards of the last open() call threw

ctrl == <<id, isOpen, dialog, openedS, closedS>>
dom == <<attached, attrs, returnValue>>
opens == <<nOpen, pc, oid, oerr, did, olog>>
closes == <<nClose, hpc, hid, hd, herr, hkind, hlog>>
vars == <<id, isOpen, dialog, openedS, closedS, attached, attrs, returnValue,
          nOpen, pc, oid, oerr, did, olog, nClose, hpc, hid, hd, herr, hkind, hlog,
          openError>>

Last(s) == s[Len(s)]

\* ------------------------------------------------------------- helpers

\* Variant of Registered: the membership test is missing.
Registered_AlwaysTrue(i) == TRUE

\* `id in this.#config`
Registered(i) == i \in DOMAIN Config

\* Outcomes of `await this.#config[i]?.[phase]?.(...)`: a hook that is not
\* configured cannot fail.
HookOutcomes(i, phase) ==
  IF i \in DOMAIN Config /\ phase \in Config[i] THEN {"ok", "fail"} ELSE {"ok"}

\* The resolve function stored by `new Promise(resolve => ...)`: it settles the
\* promise it was created for, once; a second call does nothing.
Resolve(ps, v) == IF Last(ps) = Pending THEN [ps EXCEPT ![Len(ps)] = v] ELSE ps

\* HTMLDialogElement.showModal() on node s
ShowModalOutcomes(s) ==
  IF "open" \in attrs[s] THEN {"noop", "InvalidStateError"}
  ELSE IF ~attached[s] THEN {"InvalidStateError"}
  ELSE {"shown"}

\* Variant of MarkOpened: `opening` is not removed.
MarkOpened_KeepsOpening(a) == a \cup {"opened"}

\* removeAttribute('opening'); setAttribute('opened', '')
MarkOpened(a) == (a \ {"opening"}) \cup {"opened"}

\* Variant of MarkClosing: `opened` is not removed.
MarkClosing_KeepsOpened(a) == a \cup {"closing"}

\* removeAttribute('opened'); setAttribute('closing', '')
MarkClosing(a) == (a \ {"opened"}) \cup {"closing"}

\* removeAttribute('closing'); setAttribute('closed', '')
MarkClosed(a) == (a \ {"closing"}) \cup {"closed"}

\* Variant of Emits: the hook is called before the event is dispatched.
Emits_HookFirst(phase) == << <<"hook", phase>>, <<"event", phase>> >>

\* dispatchEvent(new CustomEvent(phase, ...)) and then, in the try block that
\* follows, the call of the phase's hook.
Emits(phase) == << <<"event", phase>>, <<"hook", phase>> >>

Init ==
  /\ id = ""
  /\ isOpen = FALSE
  /\ dialog = Undefined
  /\ openedS = <<Pending>>
  /\ closedS = <<Pending>>
  /\ attached = [s \in Surfaces |-> FALSE]
  /\ attrs = [s \in Surfaces |-> {}]
  /\ returnValue = [s \in Surfaces |-> ""]
  /\ nOpen = 0
  /\ pc = [p \in Surfaces |-> "unused"]
  /\ oid = [p \in Surfaces |-> ""]
  /\ oerr = [p \in Surfaces |-> "none"]
  /\ did = [p \in Surfaces |-> {}]
  /\ olog = [p \in Surfaces |-> <<>>]
  /\ nClose = 0
  /\ hpc = [h \in Handlers |-> "unused"]
  /\ hid = [h \in Handlers |-> ""]
  /\ hd = [h \in Handlers |-> Undefined]
  /\ herr = [h \in Handlers |-> "none"]
  /\ hkind = [h \in Handlers |-> ""]
  /\ hlog = [h \in Handlers |-> <<>>]
  /\ openError = "none"

\* ------------------------------------------------------------------ open()

\* open() line 178-180: the id is not registered; the call rejects.
OpenUnregistered(i) ==
  /\ ~Registered(i)
  /\ openError' = "ConfigurationError"
  /\ UNCHANGED <<ctrl, dom, opens, closes>>

\* open() line 181-186: the id is bound, then the isOpen guard returns.
OpenWhileOpen(i) ==
  /\ Registered(i)
  /\ id' = i
  /\ isOpen
  /\ openError' = "none"
  /\ UNCHANGED <<isOpen, dialog, openedS, closedS, dom, opens, closes>>

\* open() line 181-196: bind the id, create and attach the node, set `opening`,
\* dispatch `opening`, call the opening hook and suspend on it.
OpenStart(i) ==
  /\ Registered(i)
  /\ ~isOpen
  /\ nOpen < MaxOpens
  /\ LET s == nOpen + 1 IN
       /\ id' = i
       /\ dialog' = s
       /\ attached' = [attached EXCEPT ![s] = TRUE]
       /\ attrs' = [attrs EXCEPT ![s] = {"opening"}]
       /\ nOpen' = s
       /\ pc' = [pc EXCEPT ![s] = "opening_hook"]
       /\ oid' = [oid EXCEPT ![s] = i]
       /\ olog' = [olog EXCEPT ![s] = Emits("opening")]
  /\ openError' = "none"
  /\ UNCHANGED <<isOpen, openedS, closedS, returnValue, oerr, did, closes>>

Open(i) == OpenUnregistered(i) \/ OpenWhileOpen(i) \/ OpenStart(i)

\* Variant of AfterOpeningHook: the hook's error is swallowed.
AfterOpeningHook_Swallow(o) == "paint"

\* open() line 195-201: where the call goes when the opening hook has settled.
AfterOpeningHook(o) == IF o = "fail" THEN "rejected" ELSE "paint"

\* The opening hook settles: on failure the call rejects with the hook's error,
\* otherwise it suspends on onePaint().
OpeningHookDone(p) ==
  /\ pc[p] = "opening_hook"
  /\ \E o \in HookOutcomes(oid[p], "opening") :
       /\ pc' = [pc EXCEPT ![p] = AfterOpeningHook(o)]
       /\ oerr' = [oerr EXCEPT ![p] = IF o = "fail" THEN "HookError:opening" ELSE @]
       /\ oid' = [oid EXCEPT ![p] = IF AfterOpeningHook(o) = "rejected" THEN "" ELSE @]
  /\ UNCHANGED <<ctrl, dom, nOpen, did, olog, closes, openError>>

\* open() line 201-205: the frame has been painted; this.__dialog.showModal(),
\* then suspend on animationsComplete(this.__dialog).
OnePaint(p) ==
  /\ pc[p] = "paint"
  /\ IF dialog = Undefined
       THEN /\ pc' = [pc EXCEPT ![p] = "rejected"]
            /\ oerr' = [oerr EXCEPT ![p] = "TypeError:showModal"]
            /\ oid' = [oid EXCEPT ![p] = ""]
            /\ UNCHANGED <<attrs, did>>
       ELSE \E o \in ShowModalOutcomes(dialog) :
              /\ did' = [did EXCEPT ![p] = @ \cup {"show"}]
              /\ attrs' = IF o = "shown"
                            THEN [attrs EXCEPT ![dialog] = @ \cup {"open"}]
                            ELSE attrs
              /\ pc' = [pc EXCEPT ![p] = IF o = "InvalidStateError"
                                           THEN "rejected" ELSE "entry_anim"]
              /\ oerr' = [oerr EXCEPT ![p] = IF o = "InvalidStateError" THEN o ELSE @]
              /\ oid' = [oid EXCEPT ![p] = IF o = "InvalidStateError" THEN "" ELSE @]
  /\ UNCHANGED <<ctrl, attached, returnValue, nOpen, olog, closes, openError>>

\* open() line 207-214: the entry animations have settled; isOpen = true, the
\* markers, resolve `opened`, dispatch `opened`, call the opened hook and
\* suspend on it.  this.__dialog is read again on every line.
EntryAnimSettled(p) ==
  /\ pc[p] = "entry_anim"
  /\ isOpen' = TRUE
  /\ IF dialog = Undefined
       THEN /\ pc' = [pc EXCEPT ![p] = "rejected"]
            /\ oerr' = [oerr EXCEPT ![p] = "TypeError:removeAttribute"]
            /\ oid' = [oid EXCEPT ![p] = ""]
            /\ did' = [did EXCEPT ![p] = @ \cup {"isOpen"}]
            /\ UNCHANGED <<attrs, openedS, olog>>
       ELSE /\ attrs' = [attrs EXCEPT ![dialog] = MarkOpened(@)]
            /\ openedS' = Resolve(openedS, dialog)
            /\ did' = [did EXCEPT ![p] = @ \cup {"isOpen", "resolveOpened", "openedEvent"}]
            /\ olog' = [olog EXCEPT ![p] = @ \o Emits("opened")]
            /\ pc' = [pc EXCEPT ![p] = "opened_hook"]
            /\ UNCHANGED <<oerr, oid>>
  /\ UNCHANGED <<id, dialog, closedS, attached, returnValue, nOpen, closes, openError>>

\* Variant of OpenedHookDone: isOpen is (also) set once the opened hook is done.
OpenedHookDone_SetsIsOpen(p) ==
  /\ pc[p] = "opened_hook"
  /\ \E o \in HookOutcomes(oid[p], "opened") :
       IF o = "fail"
         THEN /\ pc' = [pc EXCEPT ![p] = "rejected"]
              /\ oerr' = [oerr EXCEPT ![p] = "HookError:opened"]
              /\ UNCHANGED <<closedS, isOpen>>
         ELSE /\ pc' = [pc EXCEPT ![p] = "done"]
              /\ closedS' = Append(closedS, Pending)
              /\ isOpen' = TRUE
              /\ UNCHANGED oerr
  /\ oid' = [oid EXCEPT ![p] = ""]
  /\ UNCHANGED <<id, dialog, openedS, dom, nOpen, did, olog, closes, openError>>

\* open() line 213-220: the opened hook settles; on success this.closed is
\* replaced by a new promise and the call returns.
OpenedHookDone(p) ==
  /\ pc[p] = "opened_hook"
  /\ \E o \in HookOutcomes(oid[p], "opened") :
       IF o = "fail"
         THEN /\ pc' = [pc EXCEPT ![p] = "rejected"]
              /\ oerr' = [oerr EXCEPT ![p] = "HookError:opened"]
              /\ UNCHANGED closedS
         ELSE /\ pc' = [pc EXCEPT ![p] = "done"]
              /\ closedS' = Append(closedS, Pending)
              /\ UNCHANGED oerr
  /\ oid' = [oid EXCEPT ![p] = ""]
  /\ UNCHANGED <<id, isOpen, dialog, openedS, dom, nOpen, did, olog, closes,
                 openError>>

\* ------------------------------------------------- native close and triggers

\* Variant of NativeClose: the open attribute stays on the node.
NativeClose_KeepsOpen(s, result) ==
  /\ "open" \in attrs[s]
  /\ nClose < MaxCloses
  /\ returnValue' = [returnValue EXCEPT ![s] = IF result = "" THEN @ ELSE result]
  /\ nClose' = nClose + 1
  /\ hpc' = [hpc EXCEPT ![nClose + 1] = "queued"]
  /\ hkind' = [hkind EXCEPT ![nClose + 1] = result]
  /\ UNCHANGED <<ctrl, attached, attrs, opens, hid, hd, herr, hlog, openError>>

\* HTMLDialogElement.close(result) on node s, and what follows from it: without
\* the open attribute nothing happens; otherwise the attribute is removed, the
\* result is recorded and a `close` event is queued.  result = "" stands for
\* no result given (the platform's own dismissal).
NativeClose(s, result) ==
  /\ "open" \in attrs[s]
  /\ nClose < MaxCloses
  /\ attrs' = [attrs EXCEPT ![s] = @ \ {"open"}]
  /\ returnValue' = [returnValue EXCEPT ![s] = IF result = "" THEN @ ELSE result]
  /\ nClose' = nClose + 1
  /\ hpc' = [hpc EXCEPT ![nClose + 1] = "queued"]
  /\ hkind' = [hkind EXCEPT ![nClose + 1] = result]
  /\ UNCHANGED <<ctrl, attached, opens, hid, hd, herr, hlog, openError>>

\* close(kind): this.__dialog?.close(kind)
Close(kind) ==
  IF dialog = Undefined \/ "open" \notin attrs[dialog]
    THEN UNCHANGED vars
    ELSE NativeClose(dialog, kind)

\* Variant of KindOrDefault: the parameter has no default value.
KindOrDefault_NoDefault(arg) == arg

\* The default of close's parameter, `kind = 'programmatic'`; arg = "" stands
\* for a call without argument.
KindOrDefault(arg) == IF arg = "" THEN "programmatic" ELSE arg

\* A call close(arg) by the application.
CloseCall(arg) == Close(KindOrDefault(arg))

\* The platform dismisses a shown modal dialog (escape key).
NativeDismiss(s) ==
  /\ attached[s]
  /\ NativeClose(s, "")

\* __onLightDismiss: a mousedown whose target is the dialog node s itself; the
\* style sheet lets pointer events reach a node only while it has `open`.
LightDismiss(s) ==
  /\ attached[s]
  /\ "open" \in attrs[s]
  /\ Close("dismiss")

\* Variant of TargetIsDialog: the target's node name is not looked at.
TargetIsDialog_Always(nodeName) == TRUE

\* `target.nodeName === 'DIALOG'`
TargetIsDialog(nodeName) == nodeName = "DIALOG"

\* __onLightDismiss for a mousedown whose target has the given node name.
OnLightDismiss(nodeName) ==
  IF TargetIsDialog(nodeName) THEN Close("dismiss") ELSE UNCHANGED vars

\* A mousedown on the form inside the shown dialog node s; it bubbles to the
\* listener on the node with the form as its target.
ContentPointerDown(s) ==
  /\ attached[s]
  /\ "open" \in attrs[s]
  /\ OnLightDismiss("FORM")

\* ------------------------------------------------------- __onDialogClose

\* The oldest queued `close` event is delivered.  Line 116-132: read #id and
\* __dialog, replace `opened` by `closing`, dispatch `closing`, call the closing
\* hook and suspend on it.
CloseEventFire(h) ==
  /\ hpc[h] = "queued"
  /\ \A g \in Handlers : g < h => hpc[g] # "queued"
  /\ IF dialog = Undefined
       THEN /\ hpc' = [hpc EXCEPT ![h] = "rejected"]
            /\ herr' = [herr EXCEPT ![h] = "TypeError"]
            /\ hkind' = [hkind EXCEPT ![h] = ""]
            /\ UNCHANGED <<attrs, hid, hd, hlog>>
       ELSE /\ hpc' = [hpc EXCEPT ![h] = "closing_hook"]
            /\ hid' = [hid EXCEPT ![h] = id]
            /\ hd' = [hd EXCEPT ![h] = dialog]
            /\ attrs' = [attrs EXCEPT ![dialog] = MarkClosing(@)]
            /\ hlog' = [hlog EXCEPT ![h] = Emits("closing")]
            /\ UNCHANGED <<herr, hkind>>
  /\ UNCHANGED <<ctrl, attached, returnValue, opens, nClose, openError>>

\* Variant of ClosingHookDone: the hook's error is logged and swallowed.
ClosingHookDone_Swallow(h) ==
  /\ hpc[h] = "closing_hook"
  /\ \E o \in HookOutcomes(hid[h], "closing") :
       /\ hpc' = [hpc EXCEPT ![h] = "exit_anim"]
       /\ herr' = [herr EXCEPT ![h] = IF o = "fail" THEN "HookError:closing" ELSE @]
  /\ UNCHANGED <<ctrl, dom, opens, nClose, hid, hd, hkind, hlog, openError>>

\* Line 131-137: the closing hook settles; on failure the handler rejects,
\* otherwise it suspends on animationsComplete(d).
ClosingHookDone(h) ==
  /\ hpc[h] = "closing_hook"
  /\ \E o \in HookOutcomes(hid[h], "closing") :
       IF o = "fail"
         THEN /\ hpc' = [hpc EXCEPT ![h] = "rejected"]
              /\ herr' = [herr EXCEPT ![h] = "HookError:closing"]
              /\ hid' = [hid EXCEPT ![h] = ""]
              /\ hd' = [hd EXCEPT ![h] = Undefined]
              /\ hkind' = [hkind EXCEPT ![h] = ""]
         ELSE /\ hpc' = [hpc EXCEPT ![h] = "exit_anim"]
              /\ UNCHANGED <<herr, hid, hd, hkind>>
  /\ UNCHANGED <<ctrl, dom, opens, nClose, hlog, openError>>

\* Variant of ExitAnimSettled: the node is removed and the reference dropped
\* before the closed hook is called.
ExitAnimSettled_Detaches(h) ==
  /\ hpc[h] = "exit_anim"
  /\ isOpen' = FALSE
  /\ attrs' = [attrs EXCEPT ![hd[h]] = MarkClosed(@)]
  /\ attached' = [attached EXCEPT ![hd[h]] = FALSE]
  /\ dialog' = Undefined
  /\ closedS' = Resolve(closedS, hd[h])
  /\ hpc' = [hpc EXCEPT ![h] = "closed_hook"]
  /\ hlog' = [hlog EXCEPT ![h] = @ \o Emits("closed")]
  /\ UNCHANGED <<id, openedS, returnValue, opens, nClose, hid, hd, herr, hkind,
                 openError>>

\* Line 139-151: the exit animations have settled; isOpen = false, replace
\* `closing` by `closed`, resolve `closed`, dispatch `closed`, call the closed
\* hook and suspend on it.
ExitAnimSettled(h) ==
  /\ hpc[h] = "exit_anim"
  /\ isOpen' = FALSE
  /\ attrs' = [attrs EXCEPT ![hd[h]] = MarkClosed(@)]
  /\ closedS' = Resolve(closedS, hd[h])
  /\ hpc' = [hpc EXCEPT ![h] = "closed_hook"]
  /\ hlog' = [hlog EXCEPT ![h] = @ \o Emits("closed")]
  /\ UNCHANGED <<id, dialog, openedS, attached, returnValue, opens, nClose, hid, hd,
                 herr, hkind, openError>>

\* Variant of ClosedHookDone: the reference to the node is kept.
ClosedHookDone_KeepsReference(h) ==
  /\ hpc[h] = "closed_hook"
  /\ \E o \in HookOutcomes(hid[h], "closed") :
       IF o = "fail"
         THEN /\ hpc' = [hpc EXCEPT ![h] = "rejected"]
              /\ herr' = [herr EXCEPT ![h] = "HookError:closed"]
              /\ UNCHANGED <<id, dialog, openedS, attached>>
         ELSE /\ hpc' = [hpc EXCEPT ![h] = "done"]
              /\ attached' = [attached EXCEPT ![hd[h]] = FALSE]
              /\ openedS' = Append(openedS, Pending)
              /\ id' = ""
              /\ UNCHANGED <<herr, dialog>>
  /\ hid' = [hid EXCEPT ![h] = ""]
  /\ hd' = [hd EXCEPT ![h] = Undefined]
  /\ hkind' = [hkind EXCEPT ![h] = ""]
  /\ UNCHANGED <<isOpen, closedS, attrs, returnValue, opens, nClose, hlog, openError>>

\* Line 150-166: the closed hook settles; on success the node is removed, the
\* reference dropped, this.opened replaced by a new promise and #id cleared.
ClosedHookDone(h) ==
  /\ hpc[h] = "closed_hook"
  /\ \E o \in HookOutcomes(hid[h], "closed") :
       IF o = "fail"
         THEN /\ hpc' = [hpc EXCEPT ![h] = "rejected"]
              /\ herr' = [herr EXCEPT ![h] = "HookError:closed"]
              /\ UNCHANGED <<id, dialog, openedS, attached>>
         ELSE /\ hpc' = [hpc EXCEPT ![h] = "done"]
              /\ attached' = [attached EXCEPT ![hd[h]] = FALSE]
              /\ dialog' = Undefined
              /\ openedS' = Append(openedS, Pending)
              /\ id' = ""
              /\ UNCHANGED herr
  /\ hid' = [hid EXCEPT ![h] = ""]
  /\ hd' = [hd EXCEPT ![h] = Undefined]
  /\ hkind' = [hkind EXCEPT ![h] = ""]
  /\ UNCHANGED <<isOpen, closedS, attrs, returnValue, opens, nClose, hlog, openError>>

Next ==
  \/ \E i \in OpenIds : Open(i)
  \/ \E p \in Surfaces : OpeningHookDone(p)
  \/ \E p \in Surfaces : OnePaint(p)
  \/ \E p \in Surfaces : EntryAnimSettled(p)
  \/ \E p \in Surfaces : OpenedHookDone(p)
  \/ \E a \in CloseReasons \cup {""} : CloseCall(a)
  \/ \E s \in Surfaces : NativeDismiss(s)
  \/ \E s \in Surfaces : LightDismiss(s)
  \/ \E s \in Surfaces : ContentPointerDown(s)
  \/ \E h \in Handlers : CloseEventFire(h)
  \/ \E h \in Handlers : ClosingHookDone(h)
  \/ \E h \in Handlers : ExitAnimSettled(h)
  \/ \E h \in Handlers : ClosedHookDone(h)

Spec == Init /\ [][Next]_vars

\* --------------------------------------------------- sequential callers

Running == {"opening_hook", "paint", "entry_anim", "opened_hook"}

HandlerBusy == {"queued", "closing_hook", "exit_anim", "closed_hook"}

\* A caller that awaits the promise open() returns before it calls open()
\* again: no open() call gets past the guards while an earlier one runs.
SeqStep == nOpen' # nOpen => \A q \in Surfaces : pc[q] \notin Running

NextSeq ==
  \/ \E i \in OpenIds : Open(i) /\ SeqStep
  \/ \E p \in Surfaces : OpeningHookDone(p) /\ SeqStep
  \/ \E p \in Surfaces : OnePaint(p) /\ SeqStep
  \/ \E p \in Surfaces : EntryAnimSettled(p) /\ SeqStep
  \/ \E p \in Surfaces : OpenedHookDone(p) /\ SeqStep
  \/ \E a \in CloseReasons \cup {""} : CloseCall(a) /\ SeqStep
  \/ \E s \in Surfaces : NativeDismiss(s) /\ SeqStep
  \/ \E s \in Surfaces : LightDismiss(s) /\ SeqStep
  \/ \E s \in Surfaces : ContentPointerDown(s) /\ SeqStep
  \/ \E h \in Handlers : CloseEventFire(h) /\ SeqStep
  \/ \E h \in Handlers : ClosingHookDone(h) /\ SeqStep
  \/ \E h \in Handlers : ExitAnimSettled(h) /\ SeqStep
  \/ \E h \in Handlers : ClosedHookDone(h) /\ SeqStep

SpecSeq == Init /\ [][NextSeq]_vars

\* The round trip of the usage example: no hook rejects, a close is triggered
\* only once isOpen is true, and open() is called again only when no open()
\* call and no close handler is running.
NoHookFails ==
  /\ \A q \in Surfaces :
       oerr'[q] # oerr[q] => oerr'[q] \notin {"HookError:opening", "HookError:opened"}
  /\ \A h \in Handlers :
       herr'[h] # herr[h] => herr'[h] \notin {"HookError:closing", "HookError:closed"}

RoundTripStep ==
  /\ NoHookFails
  /\ nOpen' # nOpen => /\ \A q \in Surfaces : pc[q] \notin Running
                        /\ \A h \in Handlers : hpc[h] \notin HandlerBusy
  /\ nClose' # nClose => isOpen

NextRoundTrip ==
  \/ \E i \in OpenIds : Open(i) /\ RoundTripStep
  \/ \E p \in Surfaces : OpeningHookDone(p) /\ RoundTripStep
  \/ \E p \in Surfaces : OnePaint(p) /\ RoundTripStep
  \/ \E p \in Surfaces : EntryAnimSettled(p) /\ RoundTripStep
  \/ \E p \in Surfaces : OpenedHookDone(p) /\ RoundTripStep
  \/ \E a \in CloseReasons \cup {""} : CloseCall(a) /\ RoundTripStep
  \/ \E s \in Surfaces : NativeDismiss(s) /\ RoundTripStep
  \/ \E s \in Surfaces : LightDismiss(s) /\ RoundTripStep
  \/ \E s \in Surfaces : ContentPointerDown(s) /\ RoundTripStep
  \/ \E h \in Handlers : CloseEventFire(h) /\ RoundTripStep
  \/ \E h \in Handlers : ClosingHookDone(h) /\ RoundTripStep
  \/ \E h \in Handlers : ExitAnimSettled(h) /\ RoundTripStep
  \/ \E h \in Handlers : ClosedHookDone(h) /\ RoundTripStep

\* Every pending continuation is eventually run: settled hooks, the painted
\* frame, settled animations and the queued close event.
Settle ==
  \/ \E q \in Surfaces :
       OpeningHookDone(q) \/ OnePaint(q) \/ EntryAnimSettled(q) \/ OpenedHookDone(q)
  \/ \E h \in Handlers :
       CloseEventFire(h) \/ ClosingHookDone(h) \/ ExitAnimSettled(h) \/ ClosedHookDone(h)

SpecRoundTrip ==
  Init /\ [][NextRoundTrip]_vars /\ WF_vars(Settle /\ RoundTripStep)


\* ------------------------------------------------------------- properties

Markers == {"opening", "opened", "closing", "closed", "open"}

\* The step of open() call p that follows the entry animations (line 207-214)
EntryStep(p) == pc[p] = "entry_anim" /\ pc'[p] = "opened_hook"

\* The step of handler run h that follows the exit animations (line 139-151)
ExitStep(h) == hpc[h] = "exit_anim" /\ hpc'[h] = "closed_hook"

\* The step of handler run h that ends it normally (line 156-166)
FinishStep(h) == hpc[h] = "closed_hook" /\ hpc'[h] = "done"

\* C1: in every reachable state at most one surface created by the controller
\* is attached to the document.
C1_AtMostOneAttached == Cardinality({s \in Surfaces : attached[s]}) <= 1

\* C2: an open() call with a registered id made while isOpen is true changes
\* no controller state (#id, __dialog, isOpen, opened, closed) and no marker.
C2_OpenWhileOpenChangesNothing ==
  [][\A i \in DOMAIN Config : (isOpen /\ Open(i)) => UNCHANGED <<ctrl, dom>>]_vars

\* C3: an open() call with an id that is no key of the registry throws the
\* configuration error and changes nothing: no surface is created, and #id,
\* __dialog, isOpen, opened and closed keep their values, in any state.
C3_UnregisteredOpenFails ==
  [][\A i \in OpenIds \ DOMAIN Config :
        Open(i) => /\ openError' = "ConfigurationError"
                   /\ UNCHANGED <<ctrl, dom, opens, closes>>]_vars

C3_Witness == openError = "ConfigurationError" /\ isOpen /\ dialog # Undefined

\* C4 as claimed: once the handler has resolved `closed` (it is suspended on
\* the closed hook, which is when a caller awaiting `closed` resumes) the
\* surface is detached, isOpen is false and __dialog is undefined.
C4_DetachedWhenClosedResolves ==
  \A h \in Handlers :
    hpc[h] = "closed_hook" => ~attached[hd[h]] /\ ~isOpen /\ dialog = Undefined

\* C4 as amended: the step that resolves `closed` sets isOpen false and the
\* `closed` marker, and neither detaches the surface nor drops __dialog; a
\* surface is detached, and __dialog dropped, only by the step that follows
\* the successful completion of the closed hook.
C4_ClosedResolution ==
  [][/\ \A h \in Handlers :
          ExitStep(h) => /\ ~isOpen'
                         /\ Last(closedS') # Pending
                         /\ "closed" \in attrs'[hd[h]]
                         /\ attached' = attached
                         /\ dialog' = dialog
     /\ \A s \in Surfaces :
          (attached[s] /\ ~attached'[s]) => \E h \in Handlers : hd[h] = s /\ FinishStep(h)
     /\ (dialog # Undefined /\ dialog' = Undefined) => \E h \in Handlers : FinishStep(h)]_vars

C4_Witness ==
  \E h \in Handlers :
    /\ hpc[h] = "closed_hook"
    /\ closedS[Len(closedS)] = hd[h]
    /\ ~isOpen
    /\ attached[hd[h]]
    /\ dialog = hd[h]

\* The window of C5: the `opened` promise has resolved with the current
\* surface and the closing sequence of that surface has not reset isOpen.
C5_Window == isOpen /\ dialog # Undefined /\ Last(openedS) = dialog

\* C5: the `closed` promise read in that window is unresolved, and it is the
\* one the closing sequence resolves: this.closed is not replaced in the window.
C5_ClosedNeverStale ==
  [][/\ C5_Window => Last(closedS) = Pending
     /\ (C5_Window /\ C5_Window') => Len(closedS') = Len(closedS)]_vars

\* An open() call or a handler run is between its first and its last step.
OpenRunning(p) == pc[p] \in Running
HandlerRunning(h) == hpc[h] \in {"queued", "closing_hook", "exit_anim", "closed_hook"}

\* C6: in every cycle, cycles whose opened or closed hook fails included, the
\* opened step resolves an unresolved `opened` promise and the closed step
\* resolves an unresolved `closed` promise.  Stated for the cycles that run
\* alone: the step acts on the surface its own open() call created, no other
\* call or handler run is in progress, and no other step has marked the surface.
C6_ResolvedOncePerCycle ==
  [][/\ \A p \in Surfaces :
          ( /\ EntryStep(p)
            /\ dialog = p
            /\ attrs[p] = {"opening", "open"}
            /\ \A q \in Surfaces \ {p} : ~OpenRunning(q)
            /\ \A h \in Handlers : ~HandlerRunning(h) )
             => Last(openedS) = Pending /\ Last(openedS') # Pending
     /\ \A h \in Handlers :
          ( /\ ExitStep(h)
            /\ dialog = hd[h]
            /\ attrs[hd[h]] = {"closing"}
            /\ {s \in Surfaces : attached[s]} = {hd[h]}
            /\ \A q \in Surfaces : ~OpenRunning(q)
            /\ \A g \in Handlers \ {h} : ~HandlerRunning(g) )
             => Last(closedS) = Pending /\ Last(closedS') # Pending]_vars

\* C7: whenever an `opened` promise goes from unresolved to resolved, its value
\* is this.__dialog, that surface has `opened` and not `opening`, and isOpen
\* is true.
C7_OpenedResolution ==
  [][\A k \in DOMAIN openedS :
        (openedS[k] = Pending /\ openedS'[k] # Pending)
           => /\ dialog' # Undefined
              /\ openedS'[k] = dialog'
              /\ "opened" \in attrs'[dialog']
              /\ "opening" \notin attrs'[dialog']
              /\ isOpen']_vars

C7_Witness ==
  \E p \in Surfaces :
    /\ pc[p] = "opened_hook"
    /\ oid[p] = "bar"
    /\ dialog = p
    /\ Last(openedS) = p
    /\ isOpen
    /\ "opened" \in attrs[p]

\* C8 as claimed: no surface carries more than one of opening, opened,
\* closing, closed and the native open marker.
C8_MarkersExclusive == \A s \in Surfaces : Cardinality(attrs[s] \cap Markers) <= 1

\* C8 as amended: each phase step replaces the previous phase's marker by its
\* own (opened for opening, closing for opened, closed for closing), and
\* opening and opened are never both present; the native open marker is
\* present together with a phase marker.
C8_MarkerReplacement ==
  [][\A s \in Surfaces :
        /\ ("opened" \in attrs'[s] /\ "opened" \notin attrs[s]) => "opening" \notin attrs'[s]
        /\ ("closing" \in attrs'[s] /\ "closing" \notin attrs[s]) => "opened" \notin attrs'[s]
        /\ ("closed" \in attrs'[s] /\ "closed" \notin attrs[s]) => "closing" \notin attrs'[s]
        /\ ~({"opening", "opened"} \subseteq attrs'[s])]_vars

C8_Witness == \E s \in Surfaces : attrs[s] = {"opened", "open"} /\ dialog = s /\ isOpen

\* C9 as claimed: isOpen is true only when no open() call is before the end
\* of its opened hook and no close handler has begun.
C9_IsOpenOnlyBetweenPhases ==
  isOpen => /\ \A p \in Surfaces : pc[p] \notin Running
            /\ \A h \in Handlers : hpc[h] \notin {"closing_hook", "exit_anim", "closed_hook"}

\* C9 as amended: isOpen becomes true only in the step of open() that follows
\* the entry animations (before the opened hook runs) and becomes false only
\* in the step of the close handler that follows the exit animations; both
\* steps always set it.
C9_IsOpenTransitions ==
  [][/\ (~isOpen /\ isOpen') =>
          \E p \in Surfaces : pc[p] = "entry_anim" /\ pc'[p] \in {"opened_hook", "rejected"}
     /\ (isOpen /\ ~isOpen') => \E h \in Handlers : ExitStep(h)
     /\ \A p \in Surfaces : (pc[p] = "entry_anim" /\ pc'[p] # "entry_anim") => isOpen'
     /\ \A h \in Handlers : ExitStep(h) => ~isOpen']_vars

C9_Witness ==
  /\ isOpen
  /\ \E p \in Surfaces : pc[p] = "opened_hook" /\ dialog = p
  /\ \E h \in Handlers : hpc[h] = "exit_anim" /\ hd[h] = dialog

\* C10: an open() call whose opening hook failed has rejected with the hook's
\* error and has neither called showModal, nor set isOpen, nor resolved
\* `opened`, nor dispatched `opened`.
C10_OpeningHookFailure ==
  \A p \in Surfaces :
    oerr[p] = "HookError:opening" => pc[p] = "rejected" /\ did[p] = {}

C10_Witness ==
  \E p \in Surfaces :
    /\ oerr[p] = "HookError:opening"
    /\ dialog = p
    /\ attached[p]
    /\ "open" \notin attrs[p]
    /\ ~isOpen
    /\ Last(openedS) = Pending

\* The step of handler run h that starts it (line 116-132)
FireStep(h) == hpc[h] = "queued" /\ hpc'[h] = "closing_hook"

\* C11: close(r) on the shown surface records r as its result value, close()
\* without argument records "programmatic", and the value is the one the
\* surface has when the handler run of that close dispatches `closing` and
\* calls the closing hook, and when it dispatches `closed` and calls the closed
\* hook.
C11_ResultValueObserved ==
  [][/\ \A a \in CloseReasons \cup {""} :
          (CloseCall(a) /\ nClose' # nClose) =>
             /\ returnValue'[dialog] = (IF a = "" THEN "programmatic" ELSE a)
             /\ hkind'[nClose'] = returnValue'[dialog]
     /\ \A h \in Handlers :
          (FireStep(h) /\ hkind[h] # "") => returnValue[dialog] = hkind[h]
     /\ \A h \in Handlers :
          (ExitStep(h) /\ hkind[h] # "") => returnValue[hd[h]] = hkind[h]]_vars

C11_Witness ==
  \E h \in Handlers :
    /\ hpc[h] = "closed_hook"
    /\ hkind[h] = "custom"
    /\ returnValue[hd[h]] = "custom"
    /\ hlog[h] = Emits("closing") \o Emits("closed")

\* C12: while the surface is open, a mousedown whose target is the dialog node
\* itself does what close("dismiss") does: the node loses `open`, its result
\* value becomes "dismiss" and one close event is queued; a mousedown on the
\* content queues nothing and changes no state.
C12_LightDismiss ==
  [][\A s \in Surfaces :
        /\ (isOpen /\ s = dialog /\ LightDismiss(s)) =>
              /\ CloseCall("dismiss")
              /\ "open" \notin attrs'[s]
              /\ returnValue'[s] = "dismiss"
              /\ nClose' = nClose + 1
              /\ hpc'[nClose'] = "queued"
              /\ hkind'[nClose'] = "dismiss"
        /\ ContentPointerDown(s) => UNCHANGED vars]_vars

C12_Witness ==
  \E h \in Handlers :
    /\ hpc[h] = "closing_hook"
    /\ hkind[h] = "dismiss"
    /\ hd[h] = dialog
    /\ returnValue[dialog] = "dismiss"
    /\ isOpen

\* The controller is idle: no surface reference, no surface attached, isOpen
\* false and no kind bound.
Idle ==
  /\ dialog = Undefined
  /\ ~isOpen
  /\ id = ""
  /\ \A s \in Surfaces : ~attached[s]

\* C13: in the round trip (no hook fails, everything pending settles), every
\* close event queued for the open surface leads to its handler run ending
\* with the controller idle, and an open() call made when idle creates and
\* attaches a surface that was never used before while the earlier ones stay
\* detached.
C13_RoundTrip ==
  /\ \A h \in Handlers : (hpc[h] = "queued") ~> (hpc[h] = "done" /\ Idle)
  /\ [][(Idle /\ nOpen' # nOpen) =>
           /\ dialog' = nOpen + 1
           /\ attached'[dialog']
           /\ attrs[dialog'] = {}
           /\ \A s \in 1..nOpen : ~attached'[s]]_vars

C13_Witness ==
  /\ hpc[1] = "done"
  /\ ~attached[1]
  /\ dialog = 2
  /\ attached[2]
  /\ isOpen

\* C14: a close handler run that has begun its closing phase on a surface
\* finds the open() call that created the surface finished: the closing phase
\* never starts while that call still waits for the entry animations or for
\* the opened hook.
C14_ClosingAfterOpened ==
  \A h \in Handlers :
    (hpc[h] \in {"closing_hook", "exit_anim", "closed_hook"} /\ hd[h] # Undefined)
      => pc[hd[h]] \notin Running

\* C15: whenever isOpen is true the controller holds a surface reference and
\* that surface is attached to the document.
C15_IsOpenImpliesSurface == isOpen => (dialog # Undefined /\ attached[dialog])

\* C16: the id a close handler run binds (the id its closing and closed events
\* carry and whose closing and closed hooks it calls) is the id argument of the
\* open() call that created the surface, here while that call still awaits its
\* opened hook.
C16_HandlerUsesCreatorsId ==
  [][\A h \in Handlers :
        (FireStep(h) /\ pc[dialog] = "opened_hook") => hid'[h] = oid[dialog]]_vars

\* C17: a close handler run whose closing hook failed has rejected with the
\* hook's error after the closing event and hook only; the step in which the
\* hook fails leaves isOpen, the surface reference, the markers, the
\* attachment and the closed promise as they were, and the run takes no
\* further step.
C17_ClosingHookFailure ==
  [][\A h \in Handlers :
        /\ herr'[h] = "HookError:closing" =>
              /\ hpc'[h] = "rejected"
              /\ hlog'[h] = Emits("closing")
        /\ (hpc[h] = "closing_hook" /\ herr'[h] = "HookError:closing") =>
              UNCHANGED <<ctrl, dom>>]_vars

C17_Witness ==
  \E h \in Handlers :
    /\ herr[h] = "HookError:closing"
    /\ isOpen
    /\ dialog # Undefined
    /\ attached[dialog]
    /\ attrs[dialog] = {"closing"}
    /\ Last(closedS) = Pending

\* C18: when an open() call has rejected because its opening or opened hook
\* failed and its surface is still the current one, attached, with no close
\* event queued or handled for it, close() starts the closing sequence: the
\* surface has the native open marker that the node's close() needs.
C18_ForceClosePossible ==
  \A p \in Surfaces :
    ( /\ oerr[p] \in {"HookError:opening", "HookError:opened"}
      /\ dialog = p
      /\ attached[p]
      /\ attrs[p] \cap {"closing", "closed"} = {}
      /\ \A h \in Handlers : hpc[h] \notin HandlerBusy )
    => "open" \in attrs[p]

\* C19: a trigger (close(), light dismiss, native dismissal) queues a close
\* event only by taking the native open marker from a surface, one event per
\* trigger, so triggers that follow the first one queue nothing; and for one
\* surface there is at most one handler run: the run that dispatches `closing`
\* finds no closing or closed marker on its surface, the run that dispatches
\* `closed` finds no closed marker, the run that detaches the surface finds it
\* attached, and no two runs work on the same surface.
C19_OneHandlerRunPerPass ==
  [][/\ nClose' # nClose =>
          /\ nClose' = nClose + 1
          /\ \E s \in Surfaces : "open" \in attrs[s] /\ "open" \notin attrs'[s]
     /\ \A h \in Handlers :
          /\ FireStep(h) => attrs[dialog] \cap {"closing", "closed"} = {}
          /\ ExitStep(h) => "closed" \notin attrs[hd[h]]
          /\ FinishStep(h) => attached[hd[h]]
     /\ \A g, h \in Handlers : (g # h /\ hd'[g] # Undefined) => hd'[g] # hd'[h]]_vars

C19_Witness ==
  /\ nClose = 2
  /\ \A h \in Handlers : hpc[h] = "done" /\ hlog[h] = Emits("closing") \o Emits("closed")
  /\ \A s \in Surfaces : ~attached[s] /\ attrs[s] = {"closed"}

\* In a log every hook call directly follows the dispatch of its phase's event.
WellOrdered(log) ==
  \A i \in DOMAIN log :
    log[i][1] = "hook" => (i > 1 /\ log[i - 1] = <<"event", log[i][2]>>)

\* The step calls the hook of the given phase: the log grows and ends with it.
Calls(log, logNext, phase) == logNext # log /\ Last(logNext) = <<"hook", phase>>

\* C20: every hook call directly follows the dispatch of its phase's event.
\* The opening hook is called with the surface attached and before the call
\* has invoked the native show; the opened hook is called by the step that
\* follows the entry-animation wait, after the native show; the closing hook
\* is called by the step that starts the handler run, before the exit-animation
\* wait; the closed hook is called by the step that follows the exit-animation
\* wait, with the surface attached; a surface is detached only by the step
\* that follows the successful completion of the closed hook.
C20_HookPoints ==
  [][/\ \A p \in Surfaces : WellOrdered(olog'[p])
     /\ \A h \in Handlers : WellOrdered(hlog'[h])
     /\ \A p \in Surfaces :
          /\ Calls(olog[p], olog'[p], "opening") =>
                /\ attached'[p] /\ dialog' = p
                /\ "open" \notin attrs'[p] /\ "show" \notin did'[p]
                /\ pc'[p] = "opening_hook"
          /\ Calls(olog[p], olog'[p], "opened") =>
                pc[p] = "entry_anim" /\ "show" \in did[p]
     /\ \A h \in Handlers :
          /\ Calls(hlog[h], hlog'[h], "closing") =>
                hpc[h] = "queued" /\ hpc'[h] = "closing_hook"
          /\ Calls(hlog[h], hlog'[h], "closed") =>
                hpc[h] = "exit_anim" /\ attached'[hd[h]]
     /\ \A s \in Surfaces :
          (attached[s] /\ ~attached'[s]) =>
             \E h \in Handlers : FinishStep(h) /\ hd[h] = s]_vars

C20_Witness ==
  /\ \E p \in Surfaces :
       pc[p] = "done" /\ olog[p] = Emits("opening") \o Emits("opened")
  /\ \E h \in Handlers :
       /\ hpc[h] = "closed_hook"
       /\ hlog[h] = Emits("closing") \o Emits("closed")
       /\ attached[hd[h]]

====
